---- MODULE Spec2Model ----
(***************************************************************************)
(* Model of pkg/utils/utils.go: the identity cache (UserName, GroupName,   *)
(* LookupUser, LookupGroup over the maps uids, gids, users, groups and the *)
(* one mutex) and the timeout wrapper WithTimeout.                         *)
(*                                                                         *)
(* A Go string is a sequence of one-character strings, so that             *)
(* strconv.Itoa and strconv.Atoi are computed digit by digit.              *)
(***************************************************************************)
EXTENDS Integers, Sequences, FiniteSets, TLC

\* ------------------------------------------------------------------ bounds
\* Number of concurrent callers of the four identity operations.
NumProcs == 2
\* Cap of the per-key count of platform lookups (the counter is a
\* ghost; the cap keeps it finite when a lookup is repeated).
MaxLookups == 2
\* Longest uri given to RemovePassword.
MaxLen == 6

Procs == 1..NumProcs

\* ----------------------------------------------------------------- strings
Digit == <<"0", "1", "2", "3", "4", "5", "6", "7", "8", "9">>

IsDigit(c) == \E i \in 1..10 : Digit[i] = c

DigitVal(c) == (CHOOSE i \in 1..10 : Digit[i] = c) - 1

RECURSIVE FormatBits(_)
\* decimal digits of n >= 0, most significant first, no leading zero
FormatBits(n) ==
    IF n < 10 THEN <<Digit[n + 1]>>
    ELSE FormatBits(n \div 10) \o <<Digit[(n % 10) + 1]>>

\* strconv.Itoa(n)
Itoa(n) == IF n < 0 THEN <<"-">> \o FormatBits(0 - n) ELSE FormatBits(n)

RECURSIVE ParseDigits(_, _)
\* value of the digit string s read after the accumulated value acc
ParseDigits(s, acc) ==
    IF s = <<>> THEN acc
    ELSE ParseDigits(Tail(s), acc * 10 + DigitVal(Head(s)))

\* strconv.Atoi(s): [val, err]; on a syntax error val is 0.  The key and id
\* strings of the model are short, so the range error never arises.
Atoi(s) ==
    LET signed == s # <<>> /\ Head(s) \in {"-", "+"}
        body   == IF signed THEN Tail(s) ELSE s
    IN  IF body = <<>> \/ \E i \in 1..Len(body) : ~IsDigit(body[i])
        THEN [val |-> 0, err |-> TRUE]
        ELSE [val |-> IF signed /\ Head(s) = "-"
                      THEN 0 - ParseDigits(body, 0)
                      ELSE ParseDigits(body, 0),
              err |-> FALSE]

\* -------------------------------------------------------------------- keys
alice == <<"a", "l", "i", "c", "e">>
ghost == <<"g", "h", "o", "s", "t">>
n1000 == <<"1", "0", "0", "0">>
n99999 == <<"9", "9", "9", "9", "9">>
sid == <<"S", "-", "1">>
minus2 == <<"-", "2">>

Ops == {"UserName", "GroupName", "LookupUser", "LookupGroup"}
NameOps == {"UserName", "GroupName"}
IdOps == {"LookupUser", "LookupGroup"}

\* the arguments the callers pass
Keys(o) ==
    CASE o = "UserName"    -> {99999}
      [] o = "GroupName"   -> {0 - 2}
      [] o = "LookupUser"  -> {alice, n1000, ghost}
      [] o = "LookupGroup" -> {n1000, ghost}

\* -------------------------------------------------------------------- state
VARIABLES
    uids,       \* map[int]string
    gids,       \* map[int]string
    users,      \* map[string]int
    groups,     \* map[string]int
    mutex,      \* 0 when unlocked, else the caller holding it
    pc,         \* per caller: where it is in its call
    op,         \* per caller: the operation it runs ("none" outside a call)
    num,        \* per caller: the int parameter uid/gid, or the local uid/gid
    str,        \* per caller: the string parameter name, or the local name
    ok,         \* per caller: the ok of the map read
    res,        \* per caller: what the platform lookup returned (u, err)
    platform,   \* the platform's user and group directory
    workload,   \* per operation, the arguments the callers of this run pass
    lookups,    \* ghost: per operation and key, number of platform lookups
    nq,         \* ghost: per caller, platform lookups made by the current call
    first,      \* ghost: per operation and key, the value the first call returned
    warnings,   \* the log: per operation, the keys a warning was logged for
    wpc,        \* WithTimeout: where the caller is
    gpc,        \* WithTimeout: where the goroutine running f is
    err,        \* WithTimeout: the variable err both goroutines use
    fres,       \* WithTimeout: the value f returned
    done,       \* WithTimeout: number of values in the channel done
    timer,      \* WithTimeout: the timer t
    tC,         \* WithTimeout: number of values in the channel t.C
    branch,     \* WithTimeout: the case the select took
    result,     \* WithTimeout: the value returned to the caller
    fInTime,    \* ghost: f returned while the timer had not fired
    rpc,        \* RemovePassword: how often it has been applied
    uri,        \* RemovePassword: the argument
    out1,       \* RemovePassword(uri)
    out2        \* RemovePassword(RemovePassword(uri))

idvars == <<uids, gids, users, groups, mutex, pc, op, num, str, ok, res,
            platform, workload, lookups, nq, first, warnings>>

wtvars == <<wpc, gpc, err, fres, done, timer, tC, branch, result, fInTime>>

rpvars == <<rpc, uri, out1, out2>>

vars == <<idvars, wtvars, rpvars>>

Free == 0

NoRes == [err |-> TRUE, Name |-> <<>>, Id |-> <<>>]

\* The directories the platform may hold: login/group name -> id string.
\*   1: user alice has uid 1000, group alice has gid 1000; nothing else is
\*      registered
\*   2: a user whose name reads as a number, "1000", has uid 99999, and alice
\*      has an id that is no decimal number (a security identifier); a
\*      group named "1000" has the negative gid -2 (the nobody group of
\*      some systems)
Platforms == {
    [passwd |-> [n \in {alice} |-> n1000],
     group  |-> [n \in {alice} |-> n1000]],
    [passwd |-> [n \in {alice, n1000} |-> IF n = alice THEN sid ELSE n99999],
     group  |-> [n \in {n1000} |-> minus2]]
}

\* the directory an operation consults
Directory(o) ==
    IF o \in {"UserName", "LookupUser"} THEN platform.passwd ELSE platform.group

\* user.Lookup(name) / user.LookupGroup(name)
PlatformLookup(o, name) ==
    LET d == Directory(o)
    IN  IF name \in DOMAIN d
        THEN [err |-> FALSE, Name |-> name, Id |-> d[name]]
        ELSE NoRes

\* user.LookupId(id) / user.LookupGroupId(id)
PlatformLookupId(o, id) ==
    LET d == Directory(o)
    IN  IF \E n \in DOMAIN d : d[n] = id
        THEN LET n == CHOOSE n \in DOMAIN d : d[n] = id
             IN  [err |-> FALSE, Name |-> n, Id |-> id]
        ELSE NoRes

Cache(o) ==
    CASE o = "UserName"    -> uids
      [] o = "GroupName"   -> gids
      [] o = "LookupUser"  -> users
      [] o = "LookupGroup" -> groups

\* the key of caller p's call
Key(p) == IF op[p] \in NameOps THEN num[p] ELSE str[p]

\* the value caller p's call returns
Value(p) == IF op[p] \in NameOps THEN str[p] ELSE num[p]

\* a faulty Put: the store replaces the map by the one entry
PutAlone(m, k, v) == [x \in {k} |-> v]

\* m[k] = v
Put(m, k, v) == [x \in DOMAIN m \cup {k} |-> IF x = k THEN v ELSE m[x]]

\* a faulty CacheHit: the read never finds the key
CacheNeverHit(o, k) == FALSE

\* a faulty CacheHit: the read takes a cached -1 for a missing entry
CacheHitUnlessUnknown(o, k) ==
    /\ k \in DOMAIN Cache(o)
    /\ o \in IdOps => Cache(o)[k] # 0 - 1

\* the ok of  name, ok := uids[uid]  and of  u, ok := users[name]
CacheHit(o, k) == k \in DOMAIN Cache(o)

\* the state at program start, the callers passing the arguments w[o] to
\* operation o and u to RemovePassword
InitAll(w, u) ==
    /\ rpc = "call"
    /\ uri = u
    /\ out1 = <<>>
    /\ out2 = <<>>
    /\ workload = w
    /\ uids = << >>
    /\ gids = << >>
    /\ users = << >>
    /\ groups = << >>
    /\ mutex = Free
    /\ pc = [p \in Procs |-> "idle"]
    /\ op = [p \in Procs |-> "none"]
    /\ num = [p \in Procs |-> 0]
    /\ str = [p \in Procs |-> <<>>]
    /\ ok = [p \in Procs |-> FALSE]
    /\ res = [p \in Procs |-> NoRes]
    /\ platform \in Platforms
    /\ lookups = [o \in Ops |-> [k \in Keys(o) |-> 0]]
    /\ nq = [p \in Procs |-> 0]
    /\ first = [o \in Ops |-> [k \in Keys(o) |-> {}]]
    /\ warnings = [o \in Ops |-> {}]
    /\ wpc = "entry"
    /\ gpc = "none"
    /\ err = "nil"
    /\ fres = "nil"
    /\ done = 0
    /\ timer = "none"
    /\ tC = 0
    /\ branch = "none"
    /\ result = "none"
    /\ fInTime = FALSE

\* the state at program start, the callers passing the arguments w[o] to
\* operation o
InitWith(w) == InitAll(w, <<>>)

\* the callers pass every argument of Keys
Init == InitWith([o \in Ops |-> Keys(o)])

\* the runs in which the callers pass one argument to each operation
Workloads ==
    {[UserName |-> {a}, GroupName |-> {b}, LookupUser |-> {c}, LookupGroup |-> {d}] :
        a \in Keys("UserName"), b \in Keys("GroupName"),
        c \in Keys("LookupUser"), d \in Keys("LookupGroup")}

InitFair == \E w \in Workloads : InitWith(w)

\* ------------------------------------------------------- the four operations
\* a faulty MutexLock: the Lock does not wait
LockWithoutWaiting(p) == mutex' = p

\* mutex.Lock(): blocks until the mutex is free
MutexLock(p) == mutex = Free /\ mutex' = p

\* a faulty MutexUnlock: the early return of a cache hit skips the Unlock
UnlockSkippedOnHit(p) == mutex' = IF ok[p] THEN mutex ELSE Free

\* the deferred mutex.Unlock()
MutexUnlock(p) == mutex' = Free

\* a faulty ResolveName: no fallback to the decimal string
ResolveNameNoFallback(id, r) == [val |-> r.Name, warn |-> r.err]

\* a faulty ResolveName: no warning is logged
ResolveNameSilent(id, r) ==
    [val |-> IF ~r.err THEN r.Name ELSE Itoa(id), warn |-> FALSE]

\* the name UserName/GroupName computes from the answer r of the lookup by id
ResolveName(id, r) ==
    IF ~r.err
    THEN [val |-> r.Name, warn |-> FALSE]
    ELSE [val |-> Itoa(id), warn |-> TRUE]

\* a faulty ResolveId: the name is never parsed
ResolveIdNoParse(name, r) ==
    IF ~r.err
    THEN [val |-> Atoi(r.Id).val, warn |-> FALSE]
    ELSE [val |-> 0 - 1, warn |-> TRUE]

\* a faulty ResolveId: the name is parsed before the platform is asked
ResolveIdParseFirst(name, r) ==
    IF ~Atoi(name).err
    THEN [val |-> Atoi(name).val, warn |-> FALSE]
    ELSE IF ~r.err
         THEN [val |-> Atoi(r.Id).val, warn |-> FALSE]
         ELSE [val |-> 0 - 1, warn |-> TRUE]

\* the id LookupUser/LookupGroup computes from the answer r of the lookup by
\* name; the error of the Atoi of the platform's id string is dropped
ResolveId(name, r) ==
    IF ~r.err
    THEN [val |-> Atoi(r.Id).val, warn |-> FALSE]
    ELSE IF ~Atoi(name).err
         THEN [val |-> Atoi(name).val, warn |-> FALSE]
         ELSE [val |-> 0 - 1, warn |-> TRUE]

\* a caller invokes one of the four operations and reaches mutex.Lock()
Call(p) ==
    /\ pc[p] = "idle"
    /\ pc' = [pc EXCEPT ![p] = "lock"]
    /\ UNCHANGED <<uids, gids, users, groups, mutex, op, num, str, ok, res,
                   platform, workload, lookups, nq, first, warnings>>
    /\ UNCHANGED <<wtvars, rpvars>>

\* mutex.Lock() returns in operation o called with key k
Enter(p, o, k) ==
    /\ pc[p] = "lock"
    /\ k \in workload[o]
    /\ MutexLock(p)
    /\ op' = [op EXCEPT ![p] = o]
    /\ IF o \in NameOps
       THEN num' = [num EXCEPT ![p] = k] /\ str' = str
       ELSE str' = [str EXCEPT ![p] = k] /\ num' = num
    /\ pc' = [pc EXCEPT ![p] = "read"]
    /\ UNCHANGED <<uids, gids, users, groups, ok, res, platform, workload, lookups, nq,
                   first, warnings>>
    /\ UNCHANGED <<wtvars, rpvars>>

\* name, ok := uids[uid]   /   if u, ok := users[name]; ok { return u }; uid = -1
Read(p) ==
    /\ pc[p] = "read"
    /\ LET m == Cache(op[p])
           hit == CacheHit(op[p], Key(p))
       IN  /\ ok' = [ok EXCEPT ![p] = hit]
           /\ IF op[p] \in NameOps
              THEN /\ str' = [str EXCEPT ![p] = IF hit THEN m[Key(p)] ELSE <<>>]
                   /\ num' = num
              ELSE /\ num' = [num EXCEPT ![p] = IF hit THEN m[Key(p)] ELSE 0 - 1]
                   /\ str' = str
           /\ pc' = [pc EXCEPT ![p] = IF hit THEN "return" ELSE "query"]
    /\ UNCHANGED <<uids, gids, users, groups, mutex, op, res, platform, workload,
                   lookups, nq, first, warnings>>
    /\ UNCHANGED <<wtvars, rpvars>>

\* the platform lookup and what the operation makes of its answer
Query(p) ==
    /\ pc[p] = "query"
    /\ lookups[op[p]][Key(p)] < MaxLookups
    /\ LET o == op[p]
           r == IF o \in NameOps
                THEN PlatformLookupId(o, Itoa(num[p]))
                ELSE PlatformLookup(o, str[p])
           v == IF o \in NameOps
                THEN ResolveName(num[p], r)
                ELSE ResolveId(str[p], r)
       IN  /\ res' = [res EXCEPT ![p] = r]
           /\ IF o \in NameOps
              THEN str' = [str EXCEPT ![p] = v.val] /\ num' = num
              ELSE num' = [num EXCEPT ![p] = v.val] /\ str' = str
           /\ warnings' = IF v.warn
                          THEN [warnings EXCEPT ![o] = @ \cup {Key(p)}]
                          ELSE warnings
           /\ lookups' = [lookups EXCEPT ![o][Key(p)] = @ + 1]
    /\ nq' = [nq EXCEPT ![p] = @ + 1]
    /\ pc' = [pc EXCEPT ![p] = "store"]
    /\ UNCHANGED <<uids, gids, users, groups, mutex, op, ok, platform, workload, first>>
    /\ UNCHANGED <<wtvars, rpvars>>

\* a faulty StoresTo: UserName and GroupName write both id-to-name maps, and
\* LookupUser and LookupGroup both name-to-id maps
StoresToSameKind(o, c) == (o \in NameOps) = (c \in NameOps)

\* operation o writes the map of operation c: each writes its own map only
StoresTo(o, c) == c = o

\* uids[uid] = name   /   users[name] = uid
Store(p) ==
    /\ pc[p] = "store"
    /\ LET o == op[p]
           m == Put(Cache(o), Key(p), Value(p))
       IN  /\ uids' = IF StoresTo(o, "UserName") THEN m ELSE uids
           /\ gids' = IF StoresTo(o, "GroupName") THEN m ELSE gids
           /\ users' = IF StoresTo(o, "LookupUser") THEN m ELSE users
           /\ groups' = IF StoresTo(o, "LookupGroup") THEN m ELSE groups
    /\ pc' = [pc EXCEPT ![p] = "return"]
    /\ UNCHANGED <<mutex, op, num, str, ok, res, platform, workload, lookups, nq, first,
                   warnings>>
    /\ UNCHANGED <<wtvars, rpvars>>

\* return name / return uid, then the deferred mutex.Unlock()
Return(p) ==
    /\ pc[p] = "return"
    /\ MutexUnlock(p)
    /\ first' = [first EXCEPT ![op[p]][Key(p)] =
                    IF @ = {} THEN {Value(p)} ELSE @]
    /\ pc' = [pc EXCEPT ![p] = "idle"]
    /\ op' = [op EXCEPT ![p] = "none"]
    /\ num' = [num EXCEPT ![p] = 0]
    /\ str' = [str EXCEPT ![p] = <<>>]
    /\ ok' = [ok EXCEPT ![p] = FALSE]
    /\ res' = [res EXCEPT ![p] = NoRes]
    /\ nq' = [nq EXCEPT ![p] = 0]
    /\ UNCHANGED <<uids, gids, users, groups, platform, workload, lookups, warnings>>
    /\ UNCHANGED <<wtvars, rpvars>>

\* the steps of a call once it holds the mutex
Body(p) == Read(p) \/ Query(p) \/ Store(p) \/ Return(p)

UserName(p) ==
    \/ \E k \in Keys("UserName") : Enter(p, "UserName", k)
    \/ op[p] = "UserName" /\ Body(p)

GroupName(p) ==
    \/ \E k \in Keys("GroupName") : Enter(p, "GroupName", k)
    \/ op[p] = "GroupName" /\ Body(p)

LookupUser(p) ==
    \/ \E k \in Keys("LookupUser") : Enter(p, "LookupUser", k)
    \/ op[p] = "LookupUser" /\ Body(p)

LookupGroup(p) ==
    \/ \E k \in Keys("LookupGroup") : Enter(p, "LookupGroup", k)
    \/ op[p] = "LookupGroup" /\ Body(p)

\* the platform's directory changes (a user or group is added or removed)
PlatformChange ==
    /\ platform' \in Platforms \ {platform}
    /\ UNCHANGED <<workload, uids, gids, users, groups, mutex, pc, op, num, str, ok,
                   res, lookups, nq, first, warnings>>
    /\ UNCHANGED <<wtvars, rpvars>>

Next ==
    \/ \E p \in Procs : Call(p)
    \/ \E p \in Procs : UserName(p)
    \/ \E p \in Procs : GroupName(p)
    \/ \E p \in Procs : LookupUser(p)
    \/ \E p \in Procs : LookupGroup(p)
    \/ PlatformChange

Spec == Init /\ [][Next]_vars

\* Scheduling: a caller holding the mutex keeps running (the platform query
\* returns), and sync.Mutex hands the lock to a caller that keeps waiting.
Fairness ==
    \A p \in Procs :
        /\ WF_vars(Body(p))
        /\ SF_vars(\E o \in Ops : \E k \in Keys(o) : Enter(p, o, k))

FairSpec == InitFair /\ [][Next]_vars /\ Fairness

\* --------------------------------------------------------------- WithTimeout
\* the values f may return: nil or an error
Errs == {"nil", "e1", "e2"}

\* fmt.Errorf("timeout after %s", timeout)
TimeoutErr == "timeout after"

\* a faulty GoroutineSteps: done is signalled before err is assigned
SendBeforeAssign == <<"f", "send", "assign", "exit">>

\* the goroutine:  err = f(); done <- 1
GoroutineSteps == <<"f", "assign", "send", "exit">>

\* the step of the goroutine after step c
AfterStep(c) ==
    GoroutineSteps[(CHOOSE i \in 1..Len(GoroutineSteps) : GoroutineSteps[i] = c) + 1]

\* done = make(chan int, 1); t = time.NewTimer(timeout); var err error
WTStart ==
    /\ wpc = "entry"
    /\ done' = 0
    /\ timer' = "running"
    /\ err' = "nil"
    /\ wpc' = "go"
    /\ UNCHANGED <<gpc, fres, tC, branch, result, fInTime>>
    /\ UNCHANGED <<idvars, rpvars>>

\* go func() { ... }()
WTGo ==
    /\ wpc = "go"
    /\ gpc' = GoroutineSteps[1]
    /\ wpc' = "select"
    /\ UNCHANGED <<err, fres, done, timer, tC, branch, result, fInTime>>
    /\ UNCHANGED <<idvars, rpvars>>

\* f returns r
FReturns(r) ==
    /\ gpc = "f"
    /\ fres' = r
    /\ fInTime' = (timer # "fired")
    /\ gpc' = AfterStep("f")
    /\ UNCHANGED <<wpc, err, done, timer, tC, branch, result>>
    /\ UNCHANGED <<idvars, rpvars>>

\* err = (the value f returned)
GAssign ==
    /\ gpc = "assign"
    /\ err' = fres
    /\ gpc' = AfterStep("assign")
    /\ UNCHANGED <<wpc, fres, done, timer, tC, branch, result, fInTime>>
    /\ UNCHANGED <<idvars, rpvars>>

\* a faulty DoneChan: make(chan int), a channel with no buffer
DoneChanUnbuffered == [cap |-> 0]

\* done = make(chan int, 1)
DoneChan == [cap |-> 1]

\* done <- 1: blocks while the buffer of done is full
GSend ==
    /\ gpc = "send"
    /\ done < DoneChan.cap
    /\ done' = done + 1
    /\ gpc' = AfterStep("send")
    /\ UNCHANGED <<wpc, err, fres, timer, tC, branch, result, fInTime>>
    /\ UNCHANGED <<idvars, rpvars>>

\* the timer expires and sends the time on t.C
TimerFires ==
    /\ timer = "running"
    /\ timer' = "fired"
    /\ tC' = 1
    /\ UNCHANGED <<wpc, gpc, err, fres, done, branch, result, fInTime>>
    /\ UNCHANGED <<idvars, rpvars>>

\* case <-done:
SelectDone ==
    /\ wpc = "select"
    /\ done > 0
    /\ done' = done - 1
    /\ branch' = "done"
    /\ wpc' = "stop"
    /\ UNCHANGED <<gpc, err, fres, timer, tC, result, fInTime>>
    /\ UNCHANGED <<idvars, rpvars>>

\* case <-t.C:
SelectTimer ==
    /\ wpc = "select"
    /\ tC > 0
    /\ tC' = tC - 1
    /\ branch' = "timer"
    /\ wpc' = "assign"
    /\ UNCHANGED <<gpc, err, fres, done, timer, result, fInTime>>
    /\ UNCHANGED <<idvars, rpvars>>

\* t.Stop()
TimerStop ==
    /\ wpc = "stop"
    /\ timer' = IF timer = "running" THEN "stopped" ELSE timer
    /\ wpc' = "return"
    /\ UNCHANGED <<gpc, err, fres, done, tC, branch, result, fInTime>>
    /\ UNCHANGED <<idvars, rpvars>>

\* err = fmt.Errorf("timeout after %s", timeout)
AssignTimeout ==
    /\ wpc = "assign"
    /\ err' = TimeoutErr
    /\ wpc' = "return"
    /\ UNCHANGED <<gpc, fres, done, timer, tC, branch, result, fInTime>>
    /\ UNCHANGED <<idvars, rpvars>>

\* return err
WTReturn ==
    /\ wpc = "return"
    /\ result' = err
    /\ wpc' = "returned"
    /\ UNCHANGED <<gpc, err, fres, done, timer, tC, branch, fInTime>>
    /\ UNCHANGED <<idvars, rpvars>>

WithTimeout ==
    \/ WTStart
    \/ WTGo
    \/ SelectDone
    \/ SelectTimer
    \/ TimerStop
    \/ AssignTimeout
    \/ WTReturn

Goroutine ==
    \/ \E r \in Errs : FReturns(r)
    \/ GAssign
    \/ GSend

NextWT == WithTimeout \/ Goroutine \/ TimerFires

SpecWT == Init /\ [][NextWT]_vars

\* Scheduling: the caller of WithTimeout and the goroutine each keep running
\* while they can take a step.  Nothing makes f return or the timer fire.
FairnessWT == WF_vars(WithTimeout) /\ WF_vars(GAssign \/ GSend)

FairSpecWT == SpecWT /\ FairnessWT

\* ------------------------------------------------------------ RemovePassword
\* the characters of the uris
Alphabet == {":", "/", "@", "a"}

\* the uris of at most MaxLen characters
Uris == UNION {[1..n -> Alphabet] : n \in 0..MaxLen}

\* strings.Index(s, sub): the offset of the first sub in s, counted from 0,
\* or -1
Index(s, sub) ==
    LET at == {i \in 0..(Len(s) - Len(sub)) : SubSeq(s, i + 1, i + Len(sub)) = sub}
    IN  IF at = {} THEN 0 - 1
        ELSE CHOOSE i \in at : \A j \in at : i <= j

\* s[a:b]
Slice(s, a, b) == SubSeq(s, a + 1, b)

\* a faulty RemovePassword: the ':' is searched from the start of the uri,
\* the scheme prefix is not skipped
RemovePasswordFromStart(u) ==
    LET p == Index(u, <<"@">>)
        cp == Index(u, <<":">>)
    IN  IF p < 0 \/ cp < 0 \/ cp > p THEN u
        ELSE Slice(u, 0, cp) \o <<":", "*", "*", "*", "*">> \o Slice(u, p, Len(u))

RemovePassword(u) ==
    LET p == Index(u, <<"@">>)
    IN  IF p < 0 THEN u
        ELSE LET sp0 == Index(u, <<":", "/", "/">>) + 3
                 sp  == IF sp0 = 2 THEN 0 ELSE sp0
                 cp  == Index(Slice(u, sp, Len(u)), <<":">>)
             IN  IF cp < 0 \/ sp + cp > p THEN u
                 ELSE Slice(u, 0, sp + cp) \o <<":", "*", "*", "*", "*">>
                          \o Slice(u, p, Len(u))

\* RemovePassword(uri)
RPFirst ==
    /\ rpc = "call"
    /\ out1' = RemovePassword(uri)
    /\ rpc' = "once"
    /\ UNCHANGED <<uri, out2>>
    /\ UNCHANGED <<idvars, wtvars>>

\* RemovePassword applied to its own result
RPSecond ==
    /\ rpc = "once"
    /\ out2' = RemovePassword(out1)
    /\ rpc' = "twice"
    /\ UNCHANGED <<uri, out1>>
    /\ UNCHANGED <<idvars, wtvars>>

NextRP == RPFirst \/ RPSecond

InitRP == \E u \in Uris : InitAll([o \in Ops |-> Keys(o)], u)

SpecRP == InitRP /\ [][NextRP]_vars

\* ------------------------------------------------------ decimal numerals
\* What a string denotes, stated by position rather than by the left-to-right
\* accumulation of Atoi or the repeated division of Itoa.
RECURSIVE Pow10(_)
Pow10(e) == IF e = 0 THEN 1 ELSE 10 * Pow10(e - 1)

RECURSIVE PositionalSum(_, _)
PositionalSum(s, i) ==
    IF i > Len(s) THEN 0
    ELSE DigitVal(s[i]) * Pow10(Len(s) - i) + PositionalSum(s, i + 1)

IsNumeral(s) == s # <<>> /\ \A i \in 1..Len(s) : IsDigit(s[i])

\* s is a decimal integer: digits after an optional sign
Denotable(s) ==
    \/ IsNumeral(s)
    \/ Len(s) > 1 /\ s[1] \in {"+", "-"} /\ IsNumeral(Tail(s))

\* the decimal integer s is the integer n
Denotes(s, n) ==
    \/ IsNumeral(s) /\ n = PositionalSum(s, 1)
    \/ Len(s) > 1 /\ s[1] = "+" /\ IsNumeral(Tail(s))
                  /\ n = PositionalSum(Tail(s), 1)
    \/ Len(s) > 1 /\ s[1] = "-" /\ IsNumeral(Tail(s))
                  /\ n = 0 - PositionalSum(Tail(s), 1)

\* s is the decimal string of n: no plus sign, no leading zero
IsDecimalOf(s, n) ==
    /\ Denotes(s, n)
    /\ s[1] # "+"
    /\ LET d == IF s[1] = "-" THEN Tail(s) ELSE s
       IN  Len(d) > 1 => d[1] # "0"

\* caller p holds the mutex, between its Lock and its Unlock
InCall(p) == pc[p] \in {"read", "query", "store", "return"}

\* caller p missed the cache and has the platform's answer in res[p]
Queried(p) == pc[p] \in {"store", "return"} /\ ~ok[p]

\* caller p is about to return a value it found cached
Hit(p) == pc[p] = "return" /\ ok[p]

\* caller p is about to return a value it has just stored
Populated(p) == pc[p] = "return" /\ ~ok[p]

\* what the platform would answer now to the lookup of caller p's key
AnswerNow(p) ==
    IF op[p] \in NameOps
    THEN PlatformLookupId(op[p], Itoa(num[p]))
    ELSE PlatformLookup(op[p], str[p])

\* ------------------------------------------------------------------ claims
\* C1: for each operation and key the platform lookup is executed at most
\* once in total, a call executes at most one lookup and none when it finds
\* the key cached, and every call returns the value the first call returned.
C1_LookupOnce ==
    /\ \A o \in Ops : \A k \in Keys(o) : lookups[o][k] <= 1
    /\ \A p \in Procs :
        /\ nq[p] <= 1
        /\ Hit(p) => nq[p] = 0
        /\ pc[p] = "return" =>
              \/ first[op[p]][Key(p)] = {}
              \/ first[op[p]][Key(p)] = {Value(p)}

\* a second call returns the first call's value from the cache while another
\* caller waits for the lock and the platform would now answer otherwise
C1_Witness ==
    \E p \in Procs : \E q \in Procs :
        /\ Hit(p)
        /\ pc[q] = "lock"
        /\ op[p] = "LookupUser" /\ str[p] = n1000 /\ num[p] = 1000
        /\ first["LookupUser"][n1000] = {1000}
        /\ lookups["LookupUser"][n1000] = 1
        /\ ~AnswerNow(p).err

\* C2: an entry of uids, gids, users or groups, once present, stays present
\* with the same value in every later state, whatever the platform would
\* answer later.
C2_EntriesImmutable ==
    [][\A o \in Ops : \A k \in DOMAIN Cache(o) :
          /\ k \in DOMAIN Cache(o)'
          /\ Cache(o)'[k] = Cache(o)[k]]_vars

\* the fallback "99999" and a -1 are cached and a later call of
\* UserName(99999) returns the fallback although the platform now knows the
\* uid
C2_Witness ==
    \E p \in Procs :
        /\ Hit(p)
        /\ op[p] = "UserName" /\ num[p] = 99999 /\ str[p] = n99999
        /\ ~AnswerNow(p).err
        /\ ghost \in DOMAIN users /\ users[ghost] = 0 - 1
        /\ (0 - 2) \in DOMAIN gids

\* C3: for an id not yet cached UserName/GroupName returns the name the
\* platform answered when the lookup by id succeeded and the decimal string
\* of the id when it failed, and stores exactly that value under the id;
\* UserName(99999) with no such uid returns "99999".
C3_NameOrDecimal ==
    \A p \in Procs :
        op[p] \in NameOps /\ Queried(p) =>
            /\ ~res[p].err => str[p] = res[p].Name /\ res[p].Name # <<>>
            /\ res[p].err => IsDecimalOf(str[p], num[p])
            /\ res[p].err /\ num[p] = 99999 => str[p] = <<"9", "9", "9", "9", "9">>
            /\ pc[p] = "return" =>
                  /\ num[p] \in DOMAIN Cache(op[p])
                  /\ Cache(op[p])[num[p]] = str[p]

\* UserName(99999) missed the cache, the platform knew no such uid, and
\* "99999" is stored and about to be returned
C3_Witness ==
    \E p \in Procs :
        /\ Populated(p)
        /\ op[p] = "UserName" /\ num[p] = 99999
        /\ res[p].err
        /\ str[p] = n99999
        /\ uids[99999] = n99999

\* C4: for a name the platform does not resolve and that is a decimal
\* integer n, LookupUser/LookupGroup returns n and stores n under the name.
C4_ParsedName ==
    \A p \in Procs :
        op[p] \in IdOps /\ Queried(p) /\ res[p].err /\ Denotable(str[p]) =>
            /\ Denotes(str[p], num[p])
            /\ pc[p] = "return" =>
                  /\ str[p] \in DOMAIN Cache(op[p])
                  /\ Cache(op[p])[str[p]] = num[p]

\* LookupGroup("1000") with no group of that name stores and returns 1000
C4_Witness ==
    \E p \in Procs :
        /\ Populated(p)
        /\ op[p] = "LookupGroup" /\ str[p] = n1000
        /\ res[p].err
        /\ num[p] = 1000
        /\ groups[n1000] = 1000

\* C5: for a name the platform does not resolve and that is no decimal
\* integer, LookupUser/LookupGroup returns -1 and stores -1 under the name,
\* and every later call with that name returns -1 without a platform lookup.
C5_UnknownIsCached ==
    /\ \A p \in Procs :
          op[p] \in IdOps /\ Queried(p) /\ res[p].err /\ ~Denotable(str[p]) =>
              /\ num[p] = 0 - 1
              /\ str[p] \in warnings[op[p]]
              /\ pc[p] = "return" =>
                    /\ str[p] \in DOMAIN Cache(op[p])
                    /\ Cache(op[p])[str[p]] = 0 - 1
    /\ \A o \in IdOps : \A k \in warnings[o] :
          /\ lookups[o][k] = 1
          /\ k \in DOMAIN Cache(o) => Cache(o)[k] = 0 - 1
          /\ \A p \in Procs :
                op[p] = o /\ str[p] = k /\ pc[p] = "return" => num[p] = 0 - 1
          /\ \A p \in Procs :
                op[p] = o /\ str[p] = k /\ first[o][k] # {} /\ InCall(p) =>
                    nq[p] = 0

\* a later LookupUser("ghost") returns the cached -1 with no lookup of its own
C5_Witness ==
    \E p \in Procs :
        /\ Hit(p)
        /\ op[p] = "LookupUser" /\ str[p] = ghost /\ num[p] = 0 - 1
        /\ first["LookupUser"][ghost] = {0 - 1}
        /\ lookups["LookupUser"][ghost] = 1
        /\ nq[p] = 0

\* C6: at most one caller is between Lock and Unlock of any of the four
\* operations, the mutex names that caller, and no other caller reads or
\* writes a map while one is between its read miss and its write.
C6_MutualExclusion ==
    /\ \A p \in Procs : \A q \in Procs :
          p # q => ~(InCall(p) /\ InCall(q))
    /\ \A p \in Procs : InCall(p) <=> mutex = p

\* one caller is between its read miss and its write while another caller
\* is blocked in Lock
C6_Witness ==
    \E p \in Procs : \E q \in Procs :
        /\ pc[p] = "store" /\ op[p] = "UserName"
        /\ pc[q] = "lock"
        /\ mutex = p
        /\ DOMAIN users # {}

\* C7 as stated: whenever the platform lookup fails the call returns the
\* fallback with a logged warning, the decimal string of the id for
\* UserName/GroupName and -1 for LookupUser/LookupGroup.
C7_FallbackAsStated ==
    \A p \in Procs :
        Queried(p) /\ res[p].err =>
            /\ Key(p) \in warnings[op[p]]
            /\ op[p] \in NameOps => IsDecimalOf(str[p], num[p])
            /\ op[p] \in IdOps => num[p] = 0 - 1

\* C7 as amended: whenever the platform lookup fails the call still returns a
\* value of its result type: UserName/GroupName return the decimal string of
\* the id and log a warning; LookupUser/LookupGroup return the integer the
\* name denotes, with no warning logged, when the name is a decimal integer,
\* and -1 with a logged warning otherwise.
C7_Fallback ==
    \A p \in Procs :
        Queried(p) /\ res[p].err =>
            /\ op[p] \in NameOps =>
                  /\ IsDecimalOf(str[p], num[p])
                  /\ num[p] \in warnings[op[p]]
            /\ op[p] \in IdOps /\ Denotable(str[p]) =>
                  /\ Denotes(str[p], num[p])
                  /\ str[p] \notin warnings[op[p]]
            /\ op[p] \in IdOps /\ ~Denotable(str[p]) =>
                  /\ num[p] = 0 - 1
                  /\ str[p] \in warnings[op[p]]

\* the lookup of the name "1000" failed and LookupUser returns 1000, not -1,
\* with nothing logged, while GroupName(-2) has logged its fallback
C7_Witness ==
    \E p \in Procs :
        /\ Populated(p)
        /\ op[p] = "LookupUser" /\ str[p] = n1000
        /\ res[p].err
        /\ num[p] = 1000
        /\ n1000 \notin warnings["LookupUser"]
        /\ (0 - 2) \in warnings["GroupName"]

C10_EveryCallReturns ==
    /\ \A p \in Procs : (pc[p] # "idle") ~> (pc[p] = "idle")
    /\ [](\A p \in Procs : pc[p] \in {"idle", "lock"} => mutex # p)
    /\ []((\E p \in Procs : pc[p] # "idle") =>
             \E p \in Procs : ENABLED (UserName(p) \/ GroupName(p)
                                       \/ LookupUser(p) \/ LookupGroup(p)))

\* a caller that waited in Lock while another held the mutex is about to
\* return from a failed lookup, and a third call is already waiting
C10_Witness ==
    \E p \in Procs : \E q \in Procs :
        /\ Populated(p) /\ res[p].err
        /\ pc[q] = "lock"
        /\ \E o \in Ops : \E k \in Keys(o) : first[o][k] # {}

\* C8 as stated: whenever f returns before the timer expires, WithTimeout
\* returns exactly the value f returned.
C8_InTimeAsStated ==
    wpc = "returned" /\ fInTime => result = fres

\* C8 as amended: whenever the select of WithTimeout receives from done,
\* WithTimeout returns exactly the value f returned, an error or nil; when f
\* returns before the timer expires but the timer expires before the select
\* receives from done, the timeout error may be returned instead.
C8_DoneBranch ==
    /\ branch = "done" => gpc = "exit" /\ err = fres
    /\ branch = "done" /\ wpc = "returned" => result = fres
    /\ wpc = "returned" /\ timer # "fired" => branch = "done" /\ result = fres

\* f returned the error e1 before the timer fired and WithTimeout returned e1
C8_Witness ==
    /\ wpc = "returned"
    /\ branch = "done"
    /\ fInTime
    /\ fres = "e1"
    /\ result = "e1"

\* C11: each operation changes at most one entry of its own map: a step that
\* changes the map of operation o is the write of a caller running o after a
\* read miss, it adds that caller's key with the value it returns, leaves
\* every other key of that map as it was and leaves the other three maps
\* unchanged; a call that found its key cached never writes.
C11_OwnEntryOnly ==
    [][/\ \A p \in Procs : ok[p] => pc[p] # "store"
       /\ \A o \in Ops :
             Cache(o)' # Cache(o) =>
                 \E p \in Procs :
                     /\ op[p] = o /\ pc[p] = "store" /\ ~ok[p]
                     /\ Key(p) \notin DOMAIN Cache(o)
                     /\ DOMAIN Cache(o)' = DOMAIN Cache(o) \cup {Key(p)}
                     /\ Cache(o)'[Key(p)] = Value(p)
                     /\ \A k \in DOMAIN Cache(o) : Cache(o)'[k] = Cache(o)[k]
                     /\ \A c \in Ops \ {o} : Cache(c)' = Cache(c)]_vars

\* LookupUser("alice") has stored 1000 in users and is about to return while
\* the id-to-name maps and groups are still empty, and users holds another
\* name already
C11_Witness ==
    \E p \in Procs :
        /\ Populated(p)
        /\ op[p] = "LookupUser" /\ str[p] = alice /\ num[p] = 1000
        /\ users[alice] = 1000
        /\ ghost \in DOMAIN users
        /\ uids = << >> /\ gids = << >> /\ groups = << >>

\* C12 as stated: whenever WithTimeout takes the timeout case of its select,
\* the value it returns is the timeout error, in every interleaving with the
\* goroutine that assigns err.
C12_TimeoutReturned ==
    wpc = "returned" /\ branch = "timer" => result = TimeoutErr

\* C13: once the timer has fired WithTimeout returns, also when f never
\* returns; the goroutine is never blocked in its send on done, and once f
\* has returned it runs to its end, also after WithTimeout has returned
\* through the timeout case.
C13_NoLeak ==
    /\ (timer = "fired") ~> (wpc = "returned")
    /\ [](gpc = "send" => ENABLED GSend)
    /\ (gpc \in {"assign", "send"}) ~> (gpc = "exit")

\* WithTimeout has returned the timeout error, f returned afterwards or too
\* late to be received, and the goroutine has ended leaving its value in the
\* buffer of done
C13_Witness ==
    /\ wpc = "returned"
    /\ branch = "timer"
    /\ result = TimeoutErr
    /\ ~fInTime
    /\ gpc = "exit"
    /\ done = 1

\* C14 as stated: every value LookupUser/LookupGroup stores and returns is
\* the numeric id the platform reported for the name, the integer the name
\* itself denotes, or -1; and when the platform resolved the name the value
\* is the id the platform reported, whatever the form of its id string.
C14_ReportedId ==
    \A p \in Procs :
        op[p] \in IdOps /\ Queried(p) =>
            /\ \/ ~res[p].err /\ Denotes(res[p].Id, num[p])
               \/ Denotes(str[p], num[p])
               \/ num[p] = 0 - 1
            /\ ~res[p].err => Denotes(res[p].Id, num[p])
            /\ pc[p] = "return" => Cache(op[p])[str[p]] = num[p]

\* the positions, counted from 1, of the character c in s
Positions(s, c) == {i \in 1..Len(s) : s[i] = c}

\* the number of characters up to the end of each "://" of s
SchemeEnds(s) ==
    {i + 2 : i \in {i \in 1..(Len(s) - 2) :
                       s[i] = ":" /\ s[i + 1] = "/" /\ s[i + 2] = "/"}}

Least(S) == CHOOSE i \in S : \A j \in S : i <= j

\* C15: RemovePassword(uri) is uri when uri has no '@' or no ':' between the
\* end of the scheme prefix (the first "://", or the start of uri without
\* one) and the first '@'; otherwise it is uri with exactly the characters
\* between the first such ':' and the first '@' replaced by "****", what is
\* before the ':' and from the '@' on being kept; a second application
\* changes nothing.
C15_Redacted ==
    LET ats   == Positions(uri, "@")
        start == IF SchemeEnds(uri) = {} THEN 0 ELSE Least(SchemeEnds(uri))
        cols  == {i \in Positions(uri, ":") : i > start /\ i < Least(ats)}
    IN  /\ rpc # "call" =>
              IF ats = {} \/ cols = {}
              THEN out1 = uri
              ELSE /\ Len(out1) = Least(cols) + 4 + (Len(uri) - Least(ats) + 1)
                   /\ SubSeq(out1, 1, Least(cols)) = SubSeq(uri, 1, Least(cols))
                   /\ SubSeq(out1, Least(cols) + 1, Least(cols) + 4)
                          = <<"*", "*", "*", "*">>
                   /\ SubSeq(out1, Least(cols) + 5, Len(out1))
                          = SubSeq(uri, Least(ats), Len(uri))
        /\ rpc = "twice" => out2 = out1

\* "://:a@" has become "://:****@" and the second application has left it so
C15_Witness ==
    /\ rpc = "twice"
    /\ uri = <<":", "/", "/", ":", "a", "@">>
    /\ out1 = <<":", "/", "/", ":", "*", "*", "*", "*", "@">>
    /\ out2 = out1

====
